---- MODULE Spec2Model ----
(***************************************************************************)
(* Model of the photobooth Camera component                                *)
(* (src/app/photo/_components/Camera.tsx): the center-crop of              *)
(* capturePhoto, the countdown / capture loop of takePhotosWithCountdown,  *)
(* the page layout of generatePdf, the automatic trigger and Retake.       *)
(*                                                                         *)
(* JavaScript numbers are modelled as exact fractions <<n, d>> in lowest   *)
(* terms (d > 0), with <<0, 0>> for NaN and <<1, 0>> for Infinity, so the   *)
(* results are those of the code's formulas without floating-point         *)
(* rounding.                                                               *)
(***************************************************************************)
EXTENDS Integers, Sequences, FiniteSets, TLC

VARIABLES
    video,           \* <<videoWidth, videoHeight>> of the <video> element
    target,          \* <<TARGET_WIDTH, TARGET_HEIGHT>> of capturePhoto
    photos,          \* React state: the captured photos, in order
    countdown,       \* React state: the displayed number, or NoCountdown
    isTakingPhotos,  \* React state
    pdfUrl,          \* React state: the document offered, or NullUrl
    pc,              \* where takePhotosWithCountdown's async body waits
    loopI,           \* the loop variable i of takePhotosWithCountdown
    count,           \* the local count of the running runCountdown
    timers,          \* number of active setInterval timers of runCountdown
    gens,            \* generatePdf calls waiting for their image decodes
    run,             \* number of capture runs started so far
    lastOp,          \* the handler that ran last (history)
    retaken,         \* runs during or after which Retake was clicked (history)
    decodeFailed,    \* runs one of whose image decodes failed (history)
    captureFailed,   \* runs one of whose captures returned null (history)
    shots,           \* capturePhoto calls of the current run (history)
    countdowns,      \* runCountdown calls of the current run (history)
    sinceShot,       \* ms of timer delay since the click or the last capture
    lastGap,         \* ms between the last capture and the one (or click) before
    bottomImageUrl,  \* React state of the variant with a bottom image
    mounted,         \* the mount effect has run and its cleanup has not
    requests,        \* the getUserMedia request of each initCamera call
    mediaStreamRef,  \* mediaStreamRef.current: a stream, or NoStream
    running          \* the streams whose tracks have not been stopped

vars == <<video, target, photos, countdown, isTakingPhotos, pdfUrl, pc,
          loopI, count, timers, gens, run, lastOp, retaken, decodeFailed,
          captureFailed, shots, countdowns, sinceShot, lastGap,
          bottomImageUrl, mounted, requests, mediaStreamRef, running>>

\* The camera stream and its owner.
cameraVars == <<mounted, requests, mediaStreamRef, running>>

\* The history of the capture loop.
loopHistory == <<captureFailed, shots, countdowns, sinceShot, lastGap>>

---------------------------------------------------------------------------
(* JavaScript numbers as exact fractions.                                  *)

RECURSIVE Gcd(_, _)
Gcd(a, b) == IF b = 0 THEN a ELSE Gcd(b, a % b)

Abs(x) == IF x < 0 THEN -x ELSE x

NaN == <<0, 0>>

Infinity == <<1, 0>>

\* The fraction n / d in lowest terms; n / 0 is NaN or +-Infinity as in JS.
Norm(n, d) ==
    IF d = 0 THEN (IF n = 0 THEN NaN ELSE IF n > 0 THEN Infinity ELSE <<-1, 0>>)
    ELSE LET g == Gcd(Abs(n), Abs(d))
             s == IF d < 0 THEN -1 ELSE 1
         IN  <<(s * n) \div g, (s * d) \div g>>

Num(n) == <<n, 1>>

IsNaN(x) == x = NaN

\* x * y, reducing across before multiplying.
Mul(x, y) ==
    IF x[2] = 0 \/ y[2] = 0 THEN Norm(x[1] * y[1], 0)
    ELSE LET g1 == Gcd(Abs(x[1]), y[2])
             g2 == Gcd(Abs(y[1]), x[2])
         IN  Norm((x[1] \div g1) * (y[1] \div g2), (x[2] \div g2) * (y[2] \div g1))

\* x / y; a division by zero gives NaN or Infinity.
Div(x, y) ==
    IF y[1] = 0 THEN Norm(x[1], 0)
    ELSE IF y[1] < 0 THEN Mul(x, <<-y[2], -y[1]>>)
    ELSE Mul(x, <<y[2], y[1]>>)

\* x + y over the least common denominator.
Add(x, y) ==
    LET g == Gcd(x[2], y[2])
        l == (x[2] \div g) * y[2]
    IN  Norm(x[1] * (l \div x[2]) + y[1] * (l \div y[2]), l)

Neg(x) == <<-x[1], x[2]>>

Sub(x, y) == Add(x, Neg(y))

\* Comparisons; every comparison with NaN is false.
Gt(x, y) ==
    /\ ~IsNaN(x)
    /\ ~IsNaN(y)
    /\ IF x[2] = 0 \/ y[2] = 0 THEN x[1] * y[2] > y[1] * x[2]
       ELSE LET g == Gcd(x[2], y[2])
            IN  x[1] * (y[2] \div g) > y[1] * (x[2] \div g)

Lt(x, y) == Gt(y, x)

Le(x, y) == ~IsNaN(x) /\ ~IsNaN(y) /\ (x = y \/ Lt(x, y))

---------------------------------------------------------------------------
(* capturePhoto: the crop rectangle and the data URL.                      *)

TARGET_WIDTH == 600

TARGET_HEIGHT == 450

NullData == [shot |-> 0]

\* The source rectangle handed to drawImage.
CropWiderMutant(vidW, vidH, tw, th) ==
    LET targetAspect == Div(Num(tw), Num(th))
        desiredWidth == Mul(Num(vidH), targetAspect)
    IN  [srcX |-> Sub(Num(vidW), desiredWidth), srcY |-> Num(0),
         srcW |-> desiredWidth, srcH |-> Num(vidH)]

CropWider(vidW, vidH, tw, th) ==
    LET targetAspect == Div(Num(tw), Num(th))
        desiredWidth == Mul(Num(vidH), targetAspect)
    IN  [srcX |-> Div(Sub(Num(vidW), desiredWidth), Num(2)), srcY |-> Num(0),
         srcW |-> desiredWidth, srcH |-> Num(vidH)]

CropTallerMutant(vidW, vidH, tw, th) ==
    LET targetAspect == Div(Num(tw), Num(th))
        desiredHeight == Mul(Num(vidW), targetAspect)
    IN  [srcX |-> Num(0), srcY |-> Div(Sub(Num(vidH), desiredHeight), Num(2)),
         srcW |-> Num(vidW), srcH |-> desiredHeight]

CropTaller(vidW, vidH, tw, th) ==
    LET targetAspect == Div(Num(tw), Num(th))
        desiredHeight == Div(Num(vidW), targetAspect)
    IN  [srcX |-> Num(0), srcY |-> Div(Sub(Num(vidH), desiredHeight), Num(2)),
         srcW |-> Num(vidW), srcH |-> desiredHeight]

CropRect(vidW, vidH, tw, th) ==
    LET targetAspect == Div(Num(tw), Num(th))
        videoAspect == Div(Num(vidW), Num(vidH))
    IN  IF Gt(videoAspect, targetAspect) THEN CropWider(vidW, vidH, tw, th)
        ELSE IF Lt(videoAspect, targetAspect) THEN CropTaller(vidW, vidH, tw, th)
        ELSE [srcX |-> Num(0), srcY |-> Num(0),
              srcW |-> Num(vidW), srcH |-> Num(vidH)]

\* capturePhoto(): null without a 2d context, else the data URL of the
\* canvas, which is target-sized whatever the video reports.
capturePhoto(vid, tgt, ctxOk, r, k) ==
    IF ~ctxOk THEN NullData
    ELSE [shot |-> k, run |-> r, width |-> tgt[1], height |-> tgt[2],
          frame |-> vid, src |-> CropRect(vid[1], vid[2], tgt[1], tgt[2])]

---------------------------------------------------------------------------
(* generatePdf: the page layout.                                           *)

scaleFactor == <<3, 10>>

conversionFactor == <<264583, 1000000>>

marginH == 10

marginV == 10

NullUrl == [images |-> <<>>]

\* loadedImages: what the decode of one photo resolves with.
loadedImage(dataUrl) ==
    [data |-> dataUrl, width |-> dataUrl.width, height |-> dataUrl.height]

\* A pixel length converted to mm and scaled.
Placed(px) == Mul(Mul(Num(px), conversionFactor), scaleFactor)

\* const wMM = width * conversionFactor * scaleFactor
wMM(width) == Placed(width)

\* const hMM = height * conversionFactor * scaleFactor
hMMMutant(height) == Mul(Num(height), conversionFactor)

hMM(height) == Placed(height)

\* imageDimensions = loadedImages.map(...), built front to back.
RECURSIVE MapDimensions(_, _)
MapDimensions(ph, n) ==
    IF n = 0 THEN <<>>
    ELSE Append(MapDimensions(ph, n - 1),
                [data |-> loadedImage(ph[n]).data,
                 widthMM |-> wMM(loadedImage(ph[n]).width),
                 heightMM |-> hMM(loadedImage(ph[n]).height)])

imageDimensions(ph) == MapDimensions(ph, Len(ph))

additionalGap(dims) == Div(dims[1].heightMM, Num(2))

RECURSIVE MaxOf(_, _)
MaxOf(dims, n) ==
    IF n = 0 THEN <<-1, 0>>
    ELSE LET m == MaxOf(dims, n - 1)
         IN  IF Gt(dims[n].widthMM, m) THEN dims[n].widthMM ELSE m

maxWidthMM(dims) == MaxOf(dims, Len(dims))

RECURSIVE SumHeights(_, _)
SumHeights(dims, n) ==
    IF n = 0 THEN Num(0) ELSE Add(SumHeights(dims, n - 1), dims[n].heightMM)

totalImageHeight(dims) == SumHeights(dims, Len(dims))

pageWidthMutant(dims) == Add(maxWidthMM(dims), Num(marginH))

pageWidth(dims) == Add(maxWidthMM(dims), Num(marginH * 2))

pageHeightMutant(dims) ==
    Add(Add(totalImageHeight(dims), Num(marginV * Len(dims))),
        additionalGap(dims))

pageHeight(dims) ==
    Add(Add(totalImageHeight(dims), Num(marginV * (Len(dims) + 1))),
        additionalGap(dims))

\* currentY += heightMM + marginV
NextYMutant(y, heightMM) == Add(y, heightMM)

NextY(y, heightMM) == Add(y, Add(heightMM, Num(marginV)))

\* currentY when the loop reaches image n.
RECURSIVE currentY(_, _)
currentY(dims, n) ==
    IF n = 1 THEN Num(marginV)
    ELSE NextY(currentY(dims, n - 1), dims[n - 1].heightMM)

xPosMutant(dims, n) == Num(marginH)

xPos(dims, n) ==
    Add(Num(marginH), Div(Sub(maxWidthMM(dims), dims[n].widthMM), Num(2)))

\* The document: new jsPDF({format: [pageWidth, pageHeight]}) and its
\* addImage calls, in order.
Document(ph) ==
    LET dims == imageDimensions(ph)
    IN  [format |-> <<pageWidth(dims), pageHeight(dims)>>,
         images |-> [n \in 1..Len(dims) |->
                        [data |-> dims[n].data, x |-> xPos(dims, n),
                         y |-> currentY(dims, n),
                         w |-> dims[n].widthMM, h |-> dims[n].heightMM]]]

\* if (photos.length !== 3) return;
WrongCountMutant(ph) == Len(ph) < 3

WrongCount(ph) == Len(ph) # 3

\* generatePdf() up to its await: the decodes it starts.
generatePdf(ph, gs) ==
    IF WrongCount(ph) THEN gs
    ELSE gs \cup {[photos |-> ph, loaded |-> {}]}

\* useEffect(() => { if (photos.length === 3 && !pdfUrl) generatePdf() },
\* [photos]): run after a render in which photos changed.
AutoGenerate(ph, url, gs) ==
    IF Len(ph) = 3 /\ url = NullUrl THEN generatePdf(ph, gs) ELSE gs

---------------------------------------------------------------------------
(* Bounds and sampled inputs.                                              *)

MaxRuns == 2

MaxDim == 4

MaxTarget == 3

MaxPhotos == 4

\* Size the camera delivers once it is ready (a 16:9 frame, cropped to 4:3).
CameraSizes == {<<1280, 720>>}

\* Video sizes and targets for capturePhoto on its own.
VideoSizes ==
    {<<1280, 720>>, <<800, 600>>, <<640, 480>>, <<1280, 960>>, <<480, 640>>}
    \cup ((0..MaxDim) \X (0..MaxDim))

Targets ==
    {<<TARGET_WIDTH, TARGET_HEIGHT>>, <<400, 300>>, <<600, 400>>, <<400, 225>>}
    \cup ((1..MaxTarget) \X (1..MaxTarget))

\* Pixel sizes of the images handed to generatePdf on its own.
PixelSizes == {<<600, 450>>, <<400, 300>>, <<400, 225>>, <<250, 350>>}

ImageOf(size, k) ==
    [shot |-> k, run |-> 0, width |-> size[1], height |-> size[2],
     frame |-> size,
     src |-> [srcX |-> Num(0), srcY |-> Num(0),
              srcW |-> Num(size[1]), srcH |-> Num(size[2])]]

ImageSequences ==
    UNION {{[k \in 1..n |-> ImageOf(f[k], k)] : f \in [1..n -> PixelSizes]} :
           n \in 0..MaxPhotos}

---------------------------------------------------------------------------
(* The Camera component.                                                   *)

NoCountdown == 0

\* setInterval(..., 1000) and setTimeout(r, 500).
TickMs == 1000

SettleMs == 500

\* useState<string | null>(null) of the bottom image.
NullImage == "null"

\* useRef<MediaStream | null>(null)
NoStream == 0

\* The component is mounted and its camera request was granted: stream 1
\* is in mediaStreamRef and its tracks are live.
CameraGranted ==
    /\ mounted = TRUE
    /\ requests = <<"granted">>
    /\ mediaStreamRef = 1
    /\ running = {1}

Init ==
    /\ video = <<0, 0>>
    /\ target = <<TARGET_WIDTH, TARGET_HEIGHT>>
    /\ photos = <<>>
    /\ countdown = NoCountdown
    /\ isTakingPhotos = FALSE
    /\ pdfUrl = NullUrl
    /\ pc = "idle"
    /\ loopI = 0
    /\ count = 0
    /\ timers = 0
    /\ gens = {}
    /\ run = 0
    /\ lastOp = "init"
    /\ retaken = {}
    /\ decodeFailed = {}
    /\ captureFailed = {}
    /\ shots = 0
    /\ countdowns = 0
    /\ sinceShot = 0
    /\ lastGap = 0
    /\ bottomImageUrl = NullImage
    /\ CameraGranted

\* The stream delivers its first frame: the video reports its size.
LoadedData ==
    /\ video = <<0, 0>>
    /\ \E size \in CameraSizes : video' = size
    /\ lastOp' = "loadeddata"
    /\ UNCHANGED <<target, photos, countdown, isTakingPhotos, pdfUrl, pc,
                   loopI, count, timers, gens, run, retaken, decodeFailed,
                   loopHistory, bottomImageUrl,
                   cameraVars>>

\* runCountdown(): count = 3, setCountdown(3), setInterval(..., 1000).
runCountdown ==
    /\ count' = 3
    /\ countdown' = 3
    /\ timers' = timers + 1
    /\ pc' = "countdown"

\* if (isTakingPhotos) return;
StartRejectedMutant == FALSE

StartRejected == isTakingPhotos

\* setPhotos([]) at the start of a run.
StartPhotosMutant == photos

StartPhotos == <<>>

\* Take Photo clicked: takePhotosWithCountdown() up to its first await.  The
\* button is rendered while pdfUrl is null; the handler's own guard, not the
\* button's disabled attribute, is what rejects a request during a run.
takePhotosWithCountdown ==
    /\ pdfUrl = NullUrl
    /\ lastOp' = "takePhotosWithCountdown"
    /\ IF StartRejected
       THEN UNCHANGED <<video, target, photos, countdown, isTakingPhotos,
                        pdfUrl, pc, loopI, count, timers, gens, run,
                        loopHistory>>
       ELSE /\ run < MaxRuns
            /\ run' = run + 1
            /\ isTakingPhotos' = TRUE
            /\ photos' = StartPhotos
            /\ pdfUrl' = NullUrl
            /\ gens' = AutoGenerate(photos', pdfUrl', gens)
            /\ loopI' = 0
            /\ runCountdown
            /\ countdowns' = 1
            /\ shots' = 0
            /\ sinceShot' = 0
            /\ lastGap' = 0
            /\ UNCHANGED <<video, target, captureFailed>>
    /\ UNCHANGED <<retaken, decodeFailed, bottomImageUrl,
                   cameraVars>>

\* count--; if (count > 0)
StillCountingMutant(c) == c >= 0

StillCounting(c) == c > 0

\* setCountdown(null) on the last tick.
LastTickCountdownMutant(shown) == shown

LastTickCountdown(shown) == NoCountdown

\* for (let i = 0; i < 3; i++)
LoopContinuesMutant(i) == i < 4

LoopContinues(i) == i < 3

\* The interval callback while count stays positive.
CountdownTick ==
    /\ timers > 0
    /\ count' = count - 1
    /\ StillCounting(count')
    /\ countdown' = count'
    /\ lastOp' = "tick"
    /\ sinceShot' = sinceShot + TickMs
    /\ UNCHANGED <<video, target, photos, isTakingPhotos, pdfUrl, pc, loopI,
                   timers, gens, run, retaken, decodeFailed, captureFailed,
                   shots, countdowns, lastGap, bottomImageUrl,
                   cameraVars>>

\* const dataUrl = capturePhoto(); if (dataUrl) setPhotos(prev => [...prev, dataUrl])
CapturedMutant(ctxOk) ==
    LET dataUrl == capturePhoto(video, target, ctxOk, run, loopI + 1)
    IN  IF dataUrl # NullData THEN <<dataUrl>> \o photos ELSE photos

Captured(ctxOk) ==
    LET dataUrl == capturePhoto(video, target, ctxOk, run, loopI + 1)
    IN  IF dataUrl # NullData THEN Append(photos, dataUrl) ELSE photos

\* The last interval callback: clearInterval, setCountdown(null), resolve;
\* the loop body continues in the same task with the capture and starts
\* the settle delay.
CountdownEndCapture ==
    /\ timers > 0
    /\ count' = count - 1
    /\ ~StillCounting(count')
    /\ timers' = timers - 1
    /\ countdown' = LastTickCountdown(countdown)
    /\ \E ctxOk \in BOOLEAN : photos' = Captured(ctxOk)
    /\ gens' = IF photos' # photos THEN AutoGenerate(photos', pdfUrl, gens)
               ELSE gens
    /\ pc' = "settle"
    /\ lastOp' = "capture"
    /\ shots' = shots + 1
    /\ lastGap' = sinceShot + TickMs
    /\ sinceShot' = 0
    /\ captureFailed' = IF photos' = photos THEN captureFailed \cup {run}
                        ELSE captureFailed
    /\ UNCHANGED <<video, target, isTakingPhotos, pdfUrl, loopI, run, retaken,
                   decodeFailed, countdowns, bottomImageUrl,
                   cameraVars>>

\* The 500 ms settle delay ends: i++, then the next countdown or the end of
\* the run.
SettleTimeout ==
    /\ pc = "settle"
    /\ loopI' = loopI + 1
    /\ lastOp' = "settle"
    /\ sinceShot' = sinceShot + SettleMs
    /\ IF LoopContinues(loopI')
       THEN /\ runCountdown
            /\ countdowns' = countdowns + 1
            /\ UNCHANGED isTakingPhotos
       ELSE /\ isTakingPhotos' = FALSE
            /\ pc' = "idle"
            /\ UNCHANGED <<count, countdown, timers, countdowns>>
    /\ UNCHANGED <<video, target, photos, pdfUrl, gens, run, retaken,
                   decodeFailed, captureFailed, shots, lastGap,
                   bottomImageUrl,
                   cameraVars>>

\* await Promise.all(...): resolved by the onload of image k when every
\* other image of the call has loaded.
AllLoadedMutant(g, k) == k \in 1..Len(g.photos)

AllLoaded(g, k) == g.loaded \cup {k} = 1..Len(g.photos)

\* img.onload of image k of a pending generatePdf call; the last one
\* resolves Promise.all, and generatePdf runs to its end: setPdfUrl(url).
ImgOnLoad ==
    \E g \in gens : \E k \in (1..Len(g.photos)) \ g.loaded :
        /\ IF AllLoaded(g, k)
           THEN /\ gens' = gens \ {g}
                /\ pdfUrl' = Document(g.photos)
           ELSE /\ gens' = (gens \ {g}) \cup {[g EXCEPT !.loaded = @ \cup {k}]}
                /\ UNCHANGED pdfUrl
        /\ lastOp' = "onload"
        /\ UNCHANGED <<video, target, photos, countdown, isTakingPhotos, pc,
                       loopI, count, timers, run, retaken, decodeFailed,
                       loopHistory, bottomImageUrl,
                   cameraVars>>

\* img.onerror: Promise.all rejects and generatePdf ends without a document.
ImgOnErrorMutant ==
    \E g \in gens : \E k \in (1..Len(g.photos)) \ g.loaded :
        /\ IF AllLoaded(g, k)
           THEN /\ gens' = gens \ {g}
                /\ pdfUrl' = Document(g.photos)
           ELSE /\ gens' = (gens \ {g}) \cup {[g EXCEPT !.loaded = @ \cup {k}]}
                /\ UNCHANGED pdfUrl
        /\ decodeFailed' = decodeFailed \cup {g.photos[1].run}
        /\ lastOp' = "onerror"
        /\ UNCHANGED <<video, target, photos, countdown, isTakingPhotos, pc,
                       loopI, count, timers, run, retaken, loopHistory,
                       bottomImageUrl,
                   cameraVars>>

ImgOnError ==
    \E g \in gens :
        /\ gens' = gens \ {g}
        /\ decodeFailed' = decodeFailed \cup {g.photos[1].run}
        /\ lastOp' = "onerror"
        /\ UNCHANGED <<video, target, photos, countdown, isTakingPhotos,
                       pdfUrl, pc, loopI, count, timers, run, retaken,
                       loopHistory, bottomImageUrl,
                   cameraVars>>

\* Retake Photos clicked.
retakePhotosMutant ==
    /\ pdfUrl # NullUrl
    /\ photos' = <<>>
    /\ pdfUrl' = NullUrl
    /\ isTakingPhotos' = FALSE
    /\ gens' = AutoGenerate(photos', pdfUrl', gens)
    /\ lastOp' = "retakePhotos"
    /\ retaken' = retaken \cup {run}
    /\ UNCHANGED <<video, target, countdown, pc, loopI, count, timers, run,
                   decodeFailed, loopHistory, bottomImageUrl,
                   cameraVars>>

retakePhotos ==
    /\ pdfUrl # NullUrl
    /\ photos' = <<>>
    /\ pdfUrl' = NullUrl
    /\ gens' = AutoGenerate(photos', pdfUrl', gens)
    /\ lastOp' = "retakePhotos"
    /\ retaken' = retaken \cup {run}
    /\ UNCHANGED <<video, target, countdown, isTakingPhotos, pc, loopI,
                   count, timers, run, decodeFailed, loopHistory,
                   bottomImageUrl,
                   cameraVars>>

Next ==
    \/ LoadedData
    \/ takePhotosWithCountdown
    \/ CountdownTick
    \/ CountdownEndCapture
    \/ SettleTimeout
    \/ ImgOnLoad
    \/ ImgOnError
    \/ retakePhotos

Spec == Init /\ [][Next]_vars

\* The browser fires every pending timer: the interval callback of a running
\* countdown and the timeout of a settle delay.  Clicks, the camera and the
\* image decodes are under no obligation.
FairSpec ==
    /\ Spec
    /\ WF_vars(CountdownTick)
    /\ WF_vars(CountdownEndCapture)
    /\ WF_vars(SettleTimeout)

---------------------------------------------------------------------------
(* capturePhoto on its own: any video size, any target.                    *)

InitCrop ==
    /\ video \in VideoSizes
    /\ target \in Targets
    /\ photos = <<>>
    /\ countdown = NoCountdown
    /\ isTakingPhotos = FALSE
    /\ pdfUrl = NullUrl
    /\ pc = "idle"
    /\ loopI = 0
    /\ count = 0
    /\ timers = 0
    /\ gens = {}
    /\ run = 0
    /\ lastOp = "init"
    /\ retaken = {}
    /\ decodeFailed = {}
    /\ captureFailed = {}
    /\ shots = 0
    /\ countdowns = 0
    /\ sinceShot = 0
    /\ lastGap = 0
    /\ bottomImageUrl = NullImage
    /\ CameraGranted

CaptureCall ==
    /\ lastOp = "init"
    /\ \E ctxOk \in BOOLEAN : photos' = Captured(ctxOk)
    /\ lastOp' = "capture"
    /\ UNCHANGED <<video, target, countdown, isTakingPhotos, pdfUrl, pc,
                   loopI, count, timers, gens, run, retaken, decodeFailed,
                   loopHistory, bottomImageUrl,
                   cameraVars>>

NextCrop == CaptureCall

CropSpec == InitCrop /\ [][NextCrop]_vars

---------------------------------------------------------------------------
(* generatePdf on its own: any sequence of images.                         *)

InitLayout ==
    /\ video = <<0, 0>>
    /\ target = <<TARGET_WIDTH, TARGET_HEIGHT>>
    /\ photos \in ImageSequences
    /\ countdown = NoCountdown
    /\ isTakingPhotos = FALSE
    /\ pdfUrl = NullUrl
    /\ pc = "idle"
    /\ loopI = 0
    /\ count = 0
    /\ timers = 0
    /\ gens = {}
    /\ run = 0
    /\ lastOp = "init"
    /\ retaken = {}
    /\ decodeFailed = {}
    /\ captureFailed = {}
    /\ shots = 0
    /\ countdowns = 0
    /\ sinceShot = 0
    /\ lastGap = 0
    /\ bottomImageUrl = NullImage
    /\ CameraGranted

GeneratePdfCall ==
    /\ lastOp = "init"
    /\ gens' = generatePdf(photos, gens)
    /\ lastOp' = "generatePdf"
    /\ UNCHANGED <<video, target, photos, countdown, isTakingPhotos, pdfUrl,
                   pc, loopI, count, timers, run, retaken, decodeFailed,
                   loopHistory, bottomImageUrl,
                   cameraVars>>

\* The automatic trigger run against the same photos.
EffectCall ==
    /\ lastOp = "init"
    /\ gens' = AutoGenerate(photos, pdfUrl, gens)
    /\ lastOp' = "useEffect"
    /\ UNCHANGED <<video, target, photos, countdown, isTakingPhotos, pdfUrl,
                   pc, loopI, count, timers, run, retaken, decodeFailed,
                   loopHistory, bottomImageUrl,
                   cameraVars>>

NextLayout ==
    \/ GeneratePdfCall
    \/ EffectCall
    \/ ImgOnLoad
    \/ ImgOnError

LayoutSpec == InitLayout /\ [][NextLayout]_vars

---------------------------------------------------------------------------
\* The variant of the component with a decorative image at the bottom of
\* the strip: a fixed layout in pixels, converted to mm, built without
\* decoding the photos.

\* const pxToMm = (px: number) => px * 0.264583
pxToMm(px) == Mul(Num(px), <<264583, 1000000>>)

pdfWidthPx == 240

pdfHeightPx == 600

xPosPx == 20

photoWidth == 200

photoHeight == 150

positionsY == <<20, 190, 360>>

bottomImgYMutant == 530 - 30

bottomImgY == 530

\* The data URL loadImageAsDataURL("/ily2.png") resolves with.
BottomImage == "/ily2.png"

\* if (!bottomImageUrl) { console.error(...) }: the call goes on.
MissingBottomAbortsMutant(bottom) == bottom = NullImage

MissingBottomAborts(bottom) == FALSE

\* photos.forEach((photo, i) => doc.addImage(photo, "PNG", ...))
PhotoPlacements(ph) ==
    [i \in 1..Len(ph) |->
        [data |-> ph[i],
         x |-> pxToMm(xPosPx),
         y |-> pxToMm(positionsY[i]),
         w |-> pxToMm(photoWidth),
         h |-> pxToMm(photoHeight)]]

\* if (bottomImageUrl) doc.addImage(bottomImageUrl, "PNG", ...)
BottomPlacement(bottom) ==
    IF bottom # NullImage
    THEN <<[data |-> bottom,
            x |-> pxToMm(xPosPx),
            y |-> pxToMm(bottomImgY),
            w |-> pxToMm(200),
            h |-> pxToMm(50)]>>
    ELSE <<>>

\* The jsPDF document of the variant.
DocumentBottom(ph, bottom) ==
    [format |-> <<pxToMm(pdfWidthPx), pxToMm(pdfHeightPx)>>,
     images |-> PhotoPlacements(ph) \o BottomPlacement(bottom)]

\* generatePdf() of the variant: the value pdfUrl has when it returns.
generatePdfBottom(ph, bottom, url) ==
    IF WrongCount(ph) \/ MissingBottomAborts(bottom)
    THEN url
    ELSE DocumentBottom(ph, bottom)

\* The canvas size of the variant's capturePhoto.
VariantTarget == <<400, 300>>

\* Video sizes the variant's photos are captured from.
VariantFrames == {<<1280, 720>>, <<800, 600>>, <<640, 480>>, <<480, 640>>}

\* The photo sequences of the variant: every photo is a capture of its
\* 400 x 300 canvas.
VariantSequences ==
    UNION {{[k \in 1..n |-> capturePhoto(f[k], VariantTarget, TRUE, 0, k)] :
               f \in [1..n -> VariantFrames]} : n \in 0..MaxPhotos}

\* The variant mounted with some photos; loadImageAsDataURL is pending.
InitBottom ==
    /\ video = <<0, 0>>
    /\ target = VariantTarget
    /\ photos \in VariantSequences
    /\ countdown = NoCountdown
    /\ isTakingPhotos = FALSE
    /\ pdfUrl = NullUrl
    /\ pc = "loading"
    /\ loopI = 0
    /\ count = 0
    /\ timers = 0
    /\ gens = {}
    /\ run = 0
    /\ lastOp = "init"
    /\ retaken = {}
    /\ decodeFailed = {}
    /\ captureFailed = {}
    /\ shots = 0
    /\ countdowns = 0
    /\ sinceShot = 0
    /\ lastGap = 0
    /\ bottomImageUrl = NullImage
    /\ CameraGranted

\* .then((dataUrl) => setBottomImageUrl(dataUrl))
BottomImageLoaded ==
    /\ pc = "loading"
    /\ pc' = "idle"
    /\ bottomImageUrl' = BottomImage
    /\ lastOp' = "bottomLoaded"
    /\ UNCHANGED <<video, target, photos, countdown, isTakingPhotos, pdfUrl,
                   loopI, count, timers, gens, run, retaken, decodeFailed,
                   loopHistory, cameraVars>>

\* .catch((err) => console.error(...)): the state stays null.
BottomImageFailed ==
    /\ pc = "loading"
    /\ pc' = "idle"
    /\ lastOp' = "bottomFailed"
    /\ UNCHANGED <<video, target, photos, countdown, isTakingPhotos, pdfUrl,
                   loopI, count, timers, gens, run, retaken, decodeFailed,
                   loopHistory, bottomImageUrl,
                   cameraVars>>

\* generatePdf() called once on the photos, before or after the image load
\* has settled.
GeneratePdfBottomCall ==
    /\ pdfUrl = NullUrl
    /\ lastOp # "generatePdf"
    /\ pdfUrl' = generatePdfBottom(photos, bottomImageUrl, pdfUrl)
    /\ lastOp' = "generatePdf"
    /\ UNCHANGED <<video, target, photos, countdown, isTakingPhotos, pc,
                   loopI, count, timers, gens, run, retaken, decodeFailed,
                   loopHistory, bottomImageUrl,
                   cameraVars>>

NextBottom ==
    \/ BottomImageLoaded
    \/ BottomImageFailed
    \/ GeneratePdfBottomCall

BottomSpec == InitBottom /\ [][NextBottom]_vars

---------------------------------------------------------------------------
\* The mount effect of the component: initCamera and the cleanup.

\* Runs of the mount effect of one component instance.
MaxMounts == 3

\* The component has mounted and initCamera awaits getUserMedia.
InitCamera ==
    /\ video = <<0, 0>>
    /\ target = <<TARGET_WIDTH, TARGET_HEIGHT>>
    /\ photos = <<>>
    /\ countdown = NoCountdown
    /\ isTakingPhotos = FALSE
    /\ pdfUrl = NullUrl
    /\ pc = "idle"
    /\ loopI = 0
    /\ count = 0
    /\ timers = 0
    /\ gens = {}
    /\ run = 0
    /\ lastOp = "init"
    /\ retaken = {}
    /\ decodeFailed = {}
    /\ captureFailed = {}
    /\ shots = 0
    /\ countdowns = 0
    /\ sinceShot = 0
    /\ lastGap = 0
    /\ bottomImageUrl = NullImage
    /\ mounted = TRUE
    /\ requests = <<"pending">>
    /\ mediaStreamRef = NoStream
    /\ running = {}

\* What the mount effect leaves alone.
componentVars ==
    <<video, target, photos, countdown, isTakingPhotos, pdfUrl, pc, loopI,
      count, timers, gens, run, retaken, decodeFailed, loopHistory,
      bottomImageUrl>>

\* getUserMedia of call k resolves: mediaStreamRef.current = stream.  The
\* stream is live from then on; the ref is written whether or not the
\* component is still mounted.
GetUserMediaResolved ==
    \E k \in 1..Len(requests) :
        /\ requests[k] = "pending"
        /\ requests' = [requests EXCEPT ![k] = "granted"]
        /\ running' = running \cup {k}
        /\ mediaStreamRef' = k
        /\ lastOp' = "granted"
        /\ UNCHANGED <<componentVars, mounted>>

\* getUserMedia of call k rejects: the error is logged.
GetUserMediaRejected ==
    \E k \in 1..Len(requests) :
        /\ requests[k] = "pending"
        /\ requests' = [requests EXCEPT ![k] = "denied"]
        /\ lastOp' = "denied"
        /\ UNCHANGED <<componentVars, mounted, mediaStreamRef, running>>

\* The cleanup of the effect: the tracks of the stream in mediaStreamRef,
\* if there is one, are stopped and the ref is cleared.
Cleanup ==
    /\ mounted
    /\ mounted' = FALSE
    /\ IF mediaStreamRef # NoStream
       THEN /\ running' = running \ {mediaStreamRef}
            /\ mediaStreamRef' = NoStream
       ELSE UNCHANGED <<mediaStreamRef, running>>
    /\ lastOp' = "cleanup"
    /\ UNCHANGED <<componentVars, requests>>

\* React runs the effect of the same instance again after its cleanup (as
\* Strict Mode does): initCamera is called once more, the refs are kept.
MountEffect ==
    /\ ~mounted
    /\ Len(requests) < MaxMounts
    /\ mounted' = TRUE
    /\ requests' = Append(requests, "pending")
    /\ lastOp' = "mount"
    /\ UNCHANGED <<componentVars, mediaStreamRef, running>>

NextCamera ==
    \/ GetUserMediaResolved
    \/ GetUserMediaRejected
    \/ Cleanup
    \/ MountEffect

CameraSpec == InitCamera /\ [][NextCamera]_vars

---------------------------------------------------------------------------
(* Claims.                                                                 *)

PositiveFrame(p) == p.frame[1] > 0 /\ p.frame[2] > 0

\* C1: for every positive video size and positive target size, the crop
\* rectangle capturePhoto draws from has the target's aspect ratio
\* (srcW * targetH = srcH * targetW) and lies inside the frame.
C1_CropHasTargetAspectInsideFrame ==
    \A k \in 1..Len(photos) :
        LET p == photos[k]
            c == p.src
        IN  PositiveFrame(p) =>
                /\ Mul(c.srcW, Num(target[2])) = Mul(c.srcH, Num(target[1]))
                /\ Le(Num(0), c.srcX)
                /\ Le(Add(c.srcX, c.srcW), Num(p.frame[1]))
                /\ Le(Num(0), c.srcY)
                /\ Le(Add(c.srcY, c.srcH), Num(p.frame[2]))

\* A capture that cropped the top and bottom of a positive frame.
C1_Witness ==
    /\ Len(photos) = 1
    /\ PositiveFrame(photos[1])
    /\ Gt(photos[1].src.srcY, Num(0))

\* The center-crop as the claim states it.
ReferenceCrop(vidW, vidH, tw, th) ==
    IF vidW * th > vidH * tw
    THEN [srcX |-> Norm(vidW * th - vidH * tw, 2 * th), srcY |-> Num(0),
          srcW |-> Norm(vidH * tw, th), srcH |-> Num(vidH)]
    ELSE IF vidW * th < vidH * tw
    THEN [srcX |-> Num(0), srcY |-> Norm(vidH * tw - vidW * th, 2 * tw),
          srcW |-> Num(vidW), srcH |-> Norm(vidW * th, tw)]
    ELSE [srcX |-> Num(0), srcY |-> Num(0),
          srcW |-> Num(vidW), srcH |-> Num(vidH)]

\* C2: the crop rectangle equals the reference center-crop; 1280x720 with
\* target 400x300 gives (160, 0, 960, 720) and 800x600 with target 400x300
\* gives the whole frame (0, 0, 800, 600).
C2_CropIsCenterCrop ==
    \A k \in 1..Len(photos) :
        LET p == photos[k]
        IN  PositiveFrame(p) =>
                /\ p.src = ReferenceCrop(p.frame[1], p.frame[2],
                                         target[1], target[2])
                /\ (p.frame = <<1280, 720>> /\ target = <<400, 300>>) =>
                       p.src = [srcX |-> Num(160), srcY |-> Num(0),
                                srcW |-> Num(960), srcH |-> Num(720)]
                /\ (p.frame = <<800, 600>> /\ target = <<400, 300>>) =>
                       p.src = [srcX |-> Num(0), srcY |-> Num(0),
                                srcW |-> Num(800), srcH |-> Num(600)]

\* The capture of a 1280x720 frame for a 400x300 target.
C2_Witness ==
    /\ Len(photos) = 1
    /\ photos[1].frame = <<1280, 720>>
    /\ target = <<400, 300>>

\* C3: a capture made while the video reports a zero width or height is
\* rejected: no photo of a zero-sized frame is ever appended to photos.
C3_ZeroVideoRejected ==
    \A k \in 1..Len(photos) : PositiveFrame(photos[k])

\* The placed size of a pixel length, as the claim states it.
PlacedRef(px) == Mul(Num(px), Mul(conversionFactor, scaleFactor))

MaxRef(a, b) == IF Gt(a, b) THEN a ELSE b

\* C4: the page of a document of three images is max(placed widths) +
\* 2 * marginH wide and sum(placed heights) + 4 * marginV + (placed height
\* of the first image) / 2 high.
C4_PageSize ==
    pdfUrl # NullUrl =>
        LET w == [n \in 1..3 |-> PlacedRef(photos[n].width)]
            h == [n \in 1..3 |-> PlacedRef(photos[n].height)]
        IN  /\ Len(photos) = 3
            /\ pdfUrl.format[1] =
                   Add(MaxRef(w[1], MaxRef(w[2], w[3])), Num(2 * marginH))
            /\ pdfUrl.format[2] =
                   Add(Add(Add(Add(h[1], h[2]), h[3]), Num(4 * marginV)),
                       Div(h[1], Num(2)))

\* A document whose first image is not the widest one.
C4_Witness ==
    /\ pdfUrl # NullUrl
    /\ Len(photos) = 3
    /\ photos[1].width < photos[3].width
    /\ photos[1].height # photos[2].height

\* C5: the three images are placed top to bottom in sequence order: the
\* first at y = marginV, each later one at the previous image's y + its
\* placed height + marginV.
C5_StackedInOrder ==
    pdfUrl # NullUrl =>
        /\ Len(pdfUrl.images) = 3
        /\ \A n \in 1..3 :
               /\ pdfUrl.images[n].data = photos[n]
               /\ pdfUrl.images[n].h = PlacedRef(photos[n].height)
        /\ pdfUrl.images[1].y = Num(marginV)
        /\ \A n \in 2..3 :
               pdfUrl.images[n].y =
                   Add(Add(pdfUrl.images[n - 1].y, pdfUrl.images[n - 1].h),
                       Num(marginV))

\* A document of three images of different heights.
C5_Witness ==
    /\ pdfUrl # NullUrl
    /\ Len(photos) = 3
    /\ photos[1].height # photos[2].height
    /\ photos[2].height # photos[3].height

\* C6: a document is produced only from exactly three images: generatePdf
\* with any other number of photos starts no decode, produces no document
\* and leaves pdfUrl unchanged, and every layout the trigger starts has three.
C6_OnlyThreeImages ==
    /\ \A g \in gens : Len(g.photos) = 3
    /\ pdfUrl # NullUrl => Len(pdfUrl.images) = 3
    /\ Len(photos) # 3 => (gens = {} /\ pdfUrl = NullUrl)

\* generatePdf has run with four photos.
C6_Witness ==
    /\ lastOp = "generatePdf"
    /\ Len(photos) = 4
    /\ pdfUrl = NullUrl

\* C7: photos never holds more than three images.
C7_AtMostThreePhotos == Len(photos) <= 3

\* The second run has captured its third photo.
C7_Witness ==
    /\ run = 2
    /\ Len(photos) = 3
    /\ photos[3].run = 2

\* C8: a start request during a capture run changes nothing (photos,
\* pdfUrl, countdown, the loop and its timer), and at most one countdown
\* timer is ever active.
C8_StartWhileBusyIsNoOp ==
    /\ [][(lastOp' = "takePhotosWithCountdown" /\ isTakingPhotos) =>
              UNCHANGED <<photos, pdfUrl, countdown, isTakingPhotos, pc,
                          loopI, count, timers, gens, run>>]_vars
    /\ [](timers <= 1)

\* A start request arrived in the middle of a countdown, after a capture.
C8_Witness ==
    /\ lastOp = "takePhotosWithCountdown"
    /\ isTakingPhotos
    /\ Len(photos) >= 1
    /\ countdown = 2

\* The document was built from exactly the current photos, in order.
BuiltFromPhotos ==
    /\ Len(pdfUrl.images) = Len(photos)
    /\ \A n \in 1..Len(photos) : pdfUrl.images[n].data = photos[n]

\* The latest run is over, its three captures (of a ready camera) are in
\* photos, none of its decodes failed or is pending, and Retake was not
\* clicked.
RunCompleteAtRest ==
    /\ run >= 1
    /\ pc = "idle"
    /\ gens = {}
    /\ Len(photos) = 3
    /\ \A n \in 1..3 :
           photos[n].run = run /\ photos[n].shot = n /\ PositiveFrame(photos[n])
    /\ run \notin retaken
    /\ run \notin decodeFailed

\* C9: a run whose three captures and decodes succeed, without Retake,
\* ends with a document built from the three photos of that run: once the
\* run is over and nothing is pending, the document is available.
C9_RunYieldsDocument ==
    RunCompleteAtRest => (pdfUrl # NullUrl /\ BuiltFromPhotos)

\* C10: whenever a document is available, photos holds exactly the three
\* images it was built from.
C10_DocumentMatchesPhotos ==
    pdfUrl # NullUrl => (Len(photos) = 3 /\ BuiltFromPhotos)

\* No layout was started for, and no document was built from, a photo of the
\* current run.
NoDocumentOfCurrentRun ==
    /\ \A g \in gens : \A n \in 1..Len(g.photos) : g.photos[n].run # run
    /\ \A n \in 1..Len(pdfUrl.images) : pdfUrl.images[n].data.run # run

\* C11: once a capture of the current run has returned null, the run goes
\* on without the image, ends with fewer than three photos, no layout is
\* started for it, pdfUrl is null and, when the run is over, Take Photo is
\* enabled again.
C11_FailedCaptureNoDocument ==
    run \in captureFailed =>
        /\ Len(photos) < 3
        /\ NoDocumentOfCurrentRun
        /\ pdfUrl = NullUrl
        /\ pc = "idle" => ~isTakingPhotos

\* C12: every capture of a run happens exactly three seconds of timer delay
\* after the click (the first) or after the previous capture (the later
\* ones): nothing is waited between a shot and the next countdown.
C12_ThreeSecondsPerShot ==
    shots >= 1 => lastGap = 3 * TickMs

\* photos holds images of one run only, in the order of their captures.
InCaptureOrder ==
    \A j, k \in 1..Len(photos) :
        j < k => /\ photos[j].run = photos[k].run
                 /\ photos[j].shot < photos[k].shot

\* C14: the captures of a run happen one after another: a capture is
\* invoked only when the previous capture's result was appended or dropped,
\* its settle delay is over and a full countdown has elapsed since; at most
\* one capture is ahead of the loop index, and photos holds the images in
\* the order they were captured.
C14_CapturesInSequence ==
    /\ [](InCaptureOrder)
    /\ [](shots = IF pc = "settle" THEN loopI + 1 ELSE loopI)
    /\ [][shots' = shots + 1 =>
              /\ pc = "countdown" /\ pc' = "settle"
              /\ shots = loopI
              /\ Len(photos') \in {Len(photos), Len(photos) + 1}
              /\ shots >= 1 => lastGap' >= SettleMs + 3 * TickMs]_vars

\* The third capture of a run whose second capture was dropped.
C14_Witness ==
    /\ lastOp = "capture"
    /\ shots = 3
    /\ Len(photos) = 2
    /\ photos[1].shot = 1
    /\ photos[2].shot = 3

\* C15: the displayed countdown starts at 3, goes down by one per tick
\* (3, 2, 1) and is cleared on the third tick, which also stops the timer;
\* the capture is invoked once per countdown, on that third tick, when the
\* display is cleared, and never while a number is displayed.
C15_CountdownThenCapture ==
    /\ [](countdown \in {NoCountdown, 1, 2, 3})
    /\ [](countdown # NoCountdown <=> pc = "countdown")
    /\ [](timers = IF pc = "countdown" THEN 1 ELSE 0)
    /\ [](shots = IF pc = "countdown" THEN countdowns - 1 ELSE countdowns)
    /\ [][countdown' # countdown =>
              \/ countdown = NoCountdown /\ countdown' = 3 /\ timers' = 1
              \/ /\ countdown \in {2, 3}
                 /\ countdown' = countdown - 1
                 /\ shots' = shots
              \/ /\ countdown = 1
                 /\ countdown' = NoCountdown
                 /\ timers' = 0
                 /\ shots' = shots + 1]_vars
    /\ [][shots' = shots + 1 =>
              /\ countdown = 1
              /\ countdown' = NoCountdown
              /\ sinceShot \in {2 * TickMs, 2 * TickMs + SettleMs}]_vars

\* The second capture of a run has just been made on the third tick.
C15_Witness ==
    /\ lastOp = "capture"
    /\ shots = 2
    /\ countdowns = 2
    /\ countdown = NoCountdown
    /\ timers = 0

\* C16: every started run terminates when its timers fire: isTakingPhotos
\* becomes false again, and it does so after exactly three countdowns and
\* three capture invocations, whatever the captures return and whether or
\* not Retake is clicked during the run.
C16_RunTerminates ==
    /\ isTakingPhotos ~> ~isTakingPhotos
    /\ [][(isTakingPhotos /\ ~isTakingPhotos') =>
              /\ countdowns = 3 /\ countdowns' = 3
              /\ shots = 3 /\ shots' = 3
              /\ loopI' = 3]_vars

\* A run with a dropped capture and a Retake click has ended.
C16_Witness ==
    /\ ~isTakingPhotos
    /\ pc = "idle"
    /\ run \in captureFailed
    /\ run \in retaken
    /\ shots = 3
    /\ countdowns = 3

\* C17: a Retake click sets photos to the empty sequence and pdfUrl to null
\* in one step and changes nothing else: not isTakingPhotos, not the
\* countdown, not the loop, its timer or its counters, not a pending layout.
C17_RetakeChangesOnlyPhotosAndPdfUrl ==
    [][lastOp' = "retakePhotos" =>
           /\ photos' = <<>>
           /\ pdfUrl' = NullUrl
           /\ UNCHANGED <<video, target, countdown, isTakingPhotos, pc, loopI,
                          count, timers, gens, run, shots, countdowns,
                          sinceShot>>]_vars

\* Retake was clicked during a run after its second capture, and the run
\* went on: its third capture is the only photo.
C17_Witness ==
    /\ run \in retaken
    /\ run \notin captureFailed
    /\ isTakingPhotos
    /\ lastOp = "capture"
    /\ Len(photos) = 1
    /\ photos[1].run = run
    /\ photos[1].shot = 3

\* The document of the pending generatePdf call g is not in pdfUrl.
NotYetBuilt(g) ==
    \E n \in 1..Len(g.photos) :
        n > Len(pdfUrl.images) \/ pdfUrl.images[n].data # g.photos[n]

\* C18: generatePdf builds its page only when all three decodes have
\* completed: a call with a decode pending has produced no document, an
\* onload that leaves a decode pending does not touch pdfUrl, and the step
\* that sets a document is the third onload of its call, in whatever order
\* the three complete.
C18_PageAfterAllDecodes ==
    /\ [](\A g \in gens : g.loaded # 1..Len(g.photos) /\ NotYetBuilt(g))
    /\ [][(lastOp' = "onload" /\ Cardinality(gens') = Cardinality(gens)) =>
              pdfUrl' = pdfUrl]_vars
    /\ [][(pdfUrl' # pdfUrl /\ pdfUrl' # NullUrl) =>
              \E g \in gens :
                  /\ Cardinality(g.loaded) = 2
                  /\ gens' = gens \ {g}
                  /\ pdfUrl' = Document(g.photos)]_vars

\* The third and the second image have decoded, the first is pending, and
\* there is no document.
C18_Witness ==
    /\ lastOp = "onload"
    /\ pdfUrl = NullUrl
    /\ \E g \in gens : g.loaded = {2, 3}

\* C19: when the decode of one of the three images fails, generatePdf ends
\* without a document: the failing step leaves photos and pdfUrl as they
\* were and drops the call, pdfUrl stays null afterwards, and a document
\* never holds fewer than three images.
C19_DecodeFailureNoDocument ==
    /\ [][lastOp' = "onerror" =>
              /\ UNCHANGED <<photos, pdfUrl>>
              /\ \E g \in gens : gens' = gens \ {g}]_vars
    /\ [](decodeFailed # {} => (pdfUrl = NullUrl /\ gens = {}))
    /\ [](pdfUrl # NullUrl => Len(pdfUrl.images) = 3)

\* A decode of a generatePdf call on three photos has failed.
C19_Witness ==
    /\ lastOp = "onerror"
    /\ decodeFailed # {}
    /\ Len(photos) = 3
    /\ pdfUrl = NullUrl

\* C20: in the variant with a bottom image, generatePdf called on three
\* photos while the bottom image is not loaded produces the document in
\* that same step, with the page size and the three photo placements it
\* has with the image, and with no fourth placement.
C20_DocumentWithoutBottomImage ==
    [][(lastOp' = "generatePdf" /\ Len(photos) = 3
            /\ bottomImageUrl = NullImage) =>
           /\ pdfUrl' # NullUrl
           /\ pdfUrl'.format = <<pxToMm(240), pxToMm(600)>>
           /\ pdfUrl'.format = DocumentBottom(photos, BottomImage).format
           /\ Len(pdfUrl'.images) = 3
           /\ \A n \in 1..3 :
                  /\ pdfUrl'.images[n].data = photos[n]
                  /\ pdfUrl'.images[n] =
                         DocumentBottom(photos, BottomImage).images[n]]_vars

\* The load of the bottom image failed and the document was produced.
C20_Witness ==
    /\ lastOp = "generatePdf"
    /\ pc = "idle"
    /\ bottomImageUrl = NullImage
    /\ Len(photos) = 3
    /\ pdfUrl # NullUrl
    /\ Len(pdfUrl.images) = 3

\* The placement p lies inside the page of the document d.
InsidePage(p, d) ==
    /\ Le(Num(0), p.x)
    /\ Le(Num(0), p.y)
    /\ Le(Add(p.x, p.w), d.format[1])
    /\ Le(Add(p.y, p.h), d.format[2])

\* C21: in the variant with a bottom image, generatePdf called with the
\* image loaded places it fourth and last, 200 x 50 px whatever the photos
\* are, with its top edge at or below the bottom edge of the third photo
\* and inside the page; the page size and the three photo placements are
\* those of the document without the image.
C21_BottomImagePlacement ==
    /\ [][(lastOp' = "generatePdf" /\ Len(photos) = 3
               /\ bottomImageUrl # NullImage) =>
              Len(pdfUrl'.images) = 4]_vars
    /\ [](Len(pdfUrl.images) <= 4)
    /\ [](Len(pdfUrl.images) = 4 =>
              LET b == pdfUrl.images[4]
                  third == pdfUrl.images[3]
                  without == DocumentBottom(photos, NullImage)
              IN  /\ b.data = BottomImage
                  /\ b.w = pxToMm(200)
                  /\ b.h = pxToMm(50)
                  /\ Le(Add(third.y, third.h), b.y)
                  /\ InsidePage(b, pdfUrl)
                  /\ pdfUrl.format = without.format
                  /\ Len(without.images) = 3
                  /\ \A n \in 1..3 : pdfUrl.images[n] = without.images[n])

\* A document with the bottom image under three different photos.
C21_Witness ==
    /\ lastOp = "generatePdf"
    /\ bottomImageUrl = BottomImage
    /\ Len(pdfUrl.images) = 4
    /\ photos[1].frame # photos[2].frame
    /\ photos[2].frame # photos[3].frame

\* C22: every image of a document is horizontally centered: its left edge
\* is at marginH + (maxWidth - placedWidth) / 2, the free space on its
\* right equals the free space on its left, and that space is at least
\* marginH.
C22_HorizontallyCentered ==
    pdfUrl # NullUrl =>
        LET w == [n \in 1..3 |-> PlacedRef(photos[n].width)]
            maxWidth == MaxRef(w[1], MaxRef(w[2], w[3]))
        IN  \A n \in 1..3 :
                LET p == pdfUrl.images[n]
                IN  /\ p.w = w[n]
                    /\ p.x = Add(Num(marginH),
                                 Div(Sub(maxWidth, p.w), Num(2)))
                    /\ Sub(Sub(pdfUrl.format[1], p.x), p.w) = p.x
                    /\ Le(Num(marginH), p.x)

\* A document whose second image is narrower than the widest one.
C22_Witness ==
    /\ pdfUrl # NullUrl
    /\ Len(photos) = 3
    /\ photos[2].width < photos[1].width
    /\ Gt(pdfUrl.images[2].x, Num(marginH))

\* C23: every placed photo keeps the aspect ratio of its source pixels:
\* placedWidth * pixelHeight = placedHeight * pixelWidth for each of the
\* three placements.
C23_AspectRatioKept ==
    pdfUrl # NullUrl =>
        \A n \in 1..3 :
            LET p == pdfUrl.images[n]
            IN  /\ p.data = photos[n]
                /\ Gt(p.w, Num(0))
                /\ Mul(p.w, Num(p.data.height)) = Mul(p.h, Num(p.data.width))

\* A document of a portrait image, a 16:9 image and a 4:3 image.
C23_Witness ==
    /\ pdfUrl # NullUrl
    /\ Len(photos) = 3
    /\ <<photos[1].width, photos[1].height>> = <<250, 350>>
    /\ <<photos[2].width, photos[2].height>> = <<400, 225>>
    /\ <<photos[3].width, photos[3].height>> = <<600, 450>>

\* C24: once the component is unmounted and every camera request has
\* settled, no track of an acquired stream is left running.
C24_StreamReleased ==
    (~mounted /\ \A k \in 1..Len(requests) : requests[k] # "pending") =>
        running = {}

\* C25: a countdown number is displayed only while a capture run is in
\* progress; when no run is in progress the countdown is null and no
\* countdown timer is active.
C25_CountdownOnlyDuringRun ==
    /\ countdown # NoCountdown => isTakingPhotos
    /\ ~isTakingPhotos => (countdown = NoCountdown /\ timers = 0)

\* The first run has ended after its three captures.
C25_Witness ==
    /\ run = 1
    /\ ~isTakingPhotos
    /\ lastOp = "settle"
    /\ shots = 3
    /\ countdown = NoCountdown
    /\ timers = 0

\* C26: in a document of three images with positive pixel sizes every
\* placement lies inside the page with at least marginH free on its left
\* and on its right, the first image starts marginV below the top edge,
\* consecutive images are exactly marginV apart (so none overlap), and
\* below the third image exactly marginV + (placed height of the first
\* image) / 2 is left.
C26_PlacementsInsidePage ==
    pdfUrl # NullUrl =>
        LET im == pdfUrl.images
        IN  /\ \A n \in 1..3 :
                   /\ Gt(im[n].w, Num(0))
                   /\ Gt(im[n].h, Num(0))
                   /\ InsidePage(im[n], pdfUrl)
                   /\ Le(Num(marginH), im[n].x)
                   /\ Le(Add(Add(im[n].x, im[n].w), Num(marginH)),
                         pdfUrl.format[1])
            /\ im[1].y = Num(marginV)
            /\ \A n \in 2..3 :
                   Sub(im[n].y, Add(im[n - 1].y, im[n - 1].h)) = Num(marginV)
            /\ Sub(pdfUrl.format[2], Add(im[3].y, im[3].h)) =
                   Add(Num(marginV), Div(im[1].h, Num(2)))

\* A document whose third image is the widest and the least tall.
C26_Witness ==
    /\ pdfUrl # NullUrl
    /\ Len(photos) = 3
    /\ photos[3].width > photos[1].width
    /\ photos[3].width > photos[2].width
    /\ photos[3].height < photos[1].height
    /\ photos[3].height < photos[2].height

============================================================================
